---- MODULE Spec2Model ----
(***************************************************************************)
(* A model of the contact book of task1.py / task2.py: the Field classes   *)
(* (Phone, Birthday), Record, AddressBook, the command handlers and the    *)
(* read loop of main.                                                      *)
(*                                                                         *)
(* Strings are sequences of one-character strings, so that the regular     *)
(* expression of Phone, str.lower and strptime are computed character by   *)
(* character.  Python's None is NoneVal, which is no string.               *)
(***************************************************************************)
EXTENDS Integers, Sequences, FiniteSets, TLC

VARIABLES
    book,   \* the AddressBook: [order: keys in dict order, recs: key -> Record]
    last,   \* the last call made: its name, arguments, the state before, the outcome
    pc,     \* where the driver is: "lib" (library calls), or main's "reading",
            \* "exited", "crashed"
    hist    \* the add_record / delete calls made so far (SpecBook only)

vars == <<book, last, pc, hist>>

(***************************************************************************)
(* Bounds of the model.                                                    *)
(***************************************************************************)
MaxPhones == 3      \* phones a Record holds before the model stops adding
MaxStrLen == 11     \* longest raw string handed to Phone
MaxOps == 4         \* add_record / delete calls in a run of SpecBook
MaxContacts == 2    \* contacts in the book of SpecBirthdays
MaxArgs == 3        \* arguments after a command word in SpecShell

(***************************************************************************)
(* Strings and characters.                                                 *)
(***************************************************************************)
NoneVal == <<"<None>">>

\* the ASCII digits (\d of a str pattern also takes the other Unicode decimal
\* digits, which the alphabet of the model leaves out)
Digits == {"0", "1", "2", "3", "4", "5", "6", "7", "8", "9"}

UpperCase == <<"A", "B", "C", "D", "E", "F", "G", "H", "I", "J", "K", "L", "M",
               "N", "O", "P", "Q", "R", "S", "T", "U", "V", "W", "X", "Y", "Z">>

LowerCase == <<"a", "b", "c", "d", "e", "f", "g", "h", "i", "j", "k", "l", "m",
               "n", "o", "p", "q", "r", "s", "t", "u", "v", "w", "x", "y", "z">>

\* str.lower(), one character
LowerChar(c) ==
    IF \E i \in 1..26 : UpperCase[i] = c
    THEN LowerCase[CHOOSE i \in 1..26 : UpperCase[i] = c]
    ELSE c

\* str.lower()
Lower(s) == [i \in 1..Len(s) |-> LowerChar(s[i])]

(***************************************************************************)
(* Phone.__init__: re.match(r"^\d{10}$", value).  match anchors at the     *)
(* start; \d{10} takes ten digits; $ matches at the end of the string and  *)
(* also just before a newline that ends the string.                        *)
(***************************************************************************)
PhoneDigits == 10

PhoneMatch(value) ==
    /\ Len(value) >= PhoneDigits
    /\ \A i \in 1..PhoneDigits : value[i] \in Digits
    /\ \/ Len(value) = PhoneDigits
       \/ Len(value) = PhoneDigits + 1 /\ value[PhoneDigits + 1] = "\n"

\* Phone(value): the exception raised ("" when none)
PhoneRaises(value) == IF PhoneMatch(value) THEN "" ELSE "ValueError"

(***************************************************************************)
(* Dates.  datetime.date of the standard library: the proleptic Gregorian  *)
(* calendar, toordinal() with 0001-01-01 as day 1, a Monday.               *)
(***************************************************************************)
NoBirthday == [y |-> 0, m |-> 0, d |-> 0]

IsLeap(y) == (y % 4 = 0) /\ ((y % 100 # 0) \/ (y % 400 = 0))

DaysInMonth(y, m) ==
    IF m = 2 THEN (IF IsLeap(y) THEN 29 ELSE 28)
    ELSE IF m \in {4, 6, 9, 11} THEN 30 ELSE 31

ValidDate(y, m, d) ==
    /\ y \in 1..9999
    /\ m \in 1..12
    /\ d \in 1..DaysInMonth(y, m)

RECURSIVE DaysBeforeMonth(_, _)
DaysBeforeMonth(y, m) ==
    IF m = 1 THEN 0 ELSE DaysBeforeMonth(y, m - 1) + DaysInMonth(y, m - 1)

DaysBeforeYear(y) ==
    (y - 1) * 365 + ((y - 1) \div 4) - ((y - 1) \div 100) + ((y - 1) \div 400)

\* date.toordinal()
Ordinal(dt) == DaysBeforeYear(dt.y) + DaysBeforeMonth(dt.y, dt.m) + dt.d

\* (a - b).days
DaysBetween(a, b) == Ordinal(a) - Ordinal(b)

\* date.weekday(): Monday is 0
Weekday(dt) == (Ordinal(dt) + 6) % 7

\* calendar.day_name
DayName == <<"Monday", "Tuesday", "Wednesday", "Thursday", "Friday",
             "Saturday", "Sunday">>

\* date.replace(year=y): raises ValueError when the day does not exist in y
ReplaceYearRaises(dt, y) == ~ValidDate(y, dt.m, dt.d)

ReplaceYear(dt, y) == [dt EXCEPT !.y = y]

(***************************************************************************)
(* Record.                                                                 *)
(***************************************************************************)
\* Record(name, birthday)
NewRecord(name, birthday) == [name |-> name, phones |-> <<>>, birthday |-> birthday]

\* Record.add_phone: Phone(phone) is built first; append only if it did not raise
AddPhone(rec, phone) ==
    IF PhoneRaises(phone) # ""
    THEN [raised |-> PhoneRaises(phone), rec |-> rec]
    ELSE [raised |-> "", rec |-> [rec EXCEPT !.phones = Append(@, phone)]]

\* the index of the first phone equal to `phone`, 0 when there is none
FirstIndex(phones, phone) ==
    IF \E i \in 1..Len(phones) : phones[i] = phone
    THEN CHOOSE i \in 1..Len(phones) :
            /\ phones[i] = phone
            /\ \A j \in 1..(i - 1) : phones[j] # phone
    ELSE 0

RemoveAt(s, i) == [j \in 1..(Len(s) - 1) |-> IF j < i THEN s[j] ELSE s[j + 1]]

\* remove_phone as it would be if it removed every phone equal to `phone`
RemovePhoneAll(rec, phone) ==
    [rec EXCEPT !.phones = SelectSeq(@, LAMBDA p : p # phone)]

\* Record.remove_phone
RemovePhone(rec, phone) ==
    LET i == FirstIndex(rec.phones, phone)
    IN  IF i = 0 THEN rec ELSE [rec EXCEPT !.phones = RemoveAt(@, i)]

\* edit_phone as it would be if it validated the new value before removing the old
EditPhoneValidateFirst(rec, old, new) ==
    IF PhoneRaises(new) # ""
    THEN [raised |-> PhoneRaises(new), rec |-> rec]
    ELSE AddPhone(RemovePhone(rec, old), new)

\* Record.edit_phone: remove_phone(old), then add_phone(new)
EditPhone(rec, old, new) == AddPhone(RemovePhone(rec, old), new)

\* Record.find_phone: the value of the phone returned, NoneVal for None
FindPhone(rec, phone) ==
    IF FirstIndex(rec.phones, phone) = 0 THEN NoneVal
    ELSE rec.phones[FirstIndex(rec.phones, phone)]

\* Birthday.__init__ through Record.add_birthday: b is [kind, date]
AddBirthday(rec, b) ==
    IF b.kind # "datetime"
    THEN [raised |-> "TypeError", rec |-> rec]
    ELSE [raised |-> "", rec |-> [rec EXCEPT !.birthday = b.date]]

(***************************************************************************)
(* AddressBook: a dict, which keeps its keys in insertion order; assigning *)
(* to an existing key keeps the key's place.                               *)
(***************************************************************************)
EmptyBook == [order |-> <<>>, recs |-> <<>>]

Keys(b) == {b.order[i] : i \in 1..Len(b.order)}

KeyIndex(b, name) == CHOOSE i \in 1..Len(b.order) : b.order[i] = name

\* self.data[key] = rec
BookPut(b, key, rec) ==
    IF key \in Keys(b)
    THEN [b EXCEPT !.recs[KeyIndex(b, key)] = rec]
    ELSE [order |-> Append(b.order, key), recs |-> Append(b.recs, rec)]

\* add_record as it would be with setdefault: a name the book holds keeps its Record
AddRecordKeepFirst(b, rec) ==
    IF rec.name \in Keys(b) THEN b ELSE BookPut(b, rec.name, rec)

\* AddressBook.add_record
AddRecord(b, rec) == BookPut(b, rec.name, rec)

\* name in self.data
Has(b, name) == name \in Keys(b)

\* AddressBook.find: the Record, NoneVal for None (callers test Has first)
Find(b, name) == IF name \in Keys(b) THEN b.recs[KeyIndex(b, name)] ELSE NoneVal

\* delete as it would be if it matched the key without regard to case
DeleteIgnoreCase(b, name) ==
    IF \E i \in 1..Len(b.order) : Lower(b.order[i]) = Lower(name)
    THEN LET i == CHOOSE i \in 1..Len(b.order) : Lower(b.order[i]) = Lower(name)
         IN  [order |-> RemoveAt(b.order, i), recs |-> RemoveAt(b.recs, i)]
    ELSE b

\* AddressBook.delete
Delete(b, name) ==
    IF Has(b, name)
    THEN [order |-> RemoveAt(b.order, KeyIndex(b, name)),
          recs |-> RemoveAt(b.recs, KeyIndex(b, name))]
    ELSE b

(***************************************************************************)
(* datetime.strptime(s, "%d.%m.%Y") and strftime("%d.%m.%Y").              *)
(***************************************************************************)
DigitSeq == <<"0", "1", "2", "3", "4", "5", "6", "7", "8", "9">>

DigitVal(c) == (CHOOSE i \in 1..10 : DigitSeq[i] = c) - 1

DigitChar(n) == DigitSeq[n + 1]

RECURSIVE NumVal(_)
NumVal(s) ==
    IF Len(s) = 0 THEN 0
    ELSE NumVal(SubSeq(s, 1, Len(s) - 1)) * 10 + DigitVal(s[Len(s)])

AllDigits(s) == \A i \in 1..Len(s) : s[i] \in Digits

\* %d: 3[0-1] | [1-2]\d | 0[1-9] | [1-9] | " "[1-9]
DayField(f) ==
    \/ Len(f) = 1 /\ f[1] \in Digits \ {"0"}
    \/ /\ Len(f) = 2
       /\ \/ f[1] = "3" /\ f[2] \in {"0", "1"}
          \/ f[1] \in {"1", "2"} /\ f[2] \in Digits
          \/ f[1] \in {"0", " "} /\ f[2] \in Digits \ {"0"}

\* %m: 1[0-2] | 0[1-9] | [1-9]
MonthField(f) ==
    \/ Len(f) = 1 /\ f[1] \in Digits \ {"0"}
    \/ /\ Len(f) = 2
       /\ \/ f[1] = "1" /\ f[2] \in {"0", "1", "2"}
          \/ f[1] = "0" /\ f[2] \in Digits \ {"0"}

\* %Y: \d\d\d\d
YearField(f) == Len(f) = 4 /\ AllDigits(f)

FieldVal(f) == IF f[1] = " " THEN NumVal(Tail(f)) ELSE NumVal(f)

DotsOf(s) == {i \in 1..Len(s) : s[i] = "."}

\* the three fields of s around its two dots
DateFields(s) ==
    LET p1 == CHOOSE i \in DotsOf(s) : \A j \in DotsOf(s) : i <= j
        p2 == CHOOSE i \in DotsOf(s) : \A j \in DotsOf(s) : i >= j
    IN  <<SubSeq(s, 1, p1 - 1), SubSeq(s, p1 + 1, p2 - 1), SubSeq(s, p2 + 1, Len(s))>>

\* strptime raises ValueError: the text does not match the format, or the
\* fields name no date
StrptimeRaises(s) ==
    \/ Cardinality(DotsOf(s)) # 2
    \/ LET f == DateFields(s)
       IN  \/ ~DayField(f[1])
           \/ ~MonthField(f[2])
           \/ ~YearField(f[3])
           \/ ~ValidDate(NumVal(f[3]), FieldVal(f[2]), FieldVal(f[1]))

Strptime(s) ==
    LET f == DateFields(s)
    IN  [y |-> NumVal(f[3]), m |-> FieldVal(f[2]), d |-> FieldVal(f[1])]

Pad2(n) == <<DigitChar(n \div 10), DigitChar(n % 10)>>

\* strftime("%d.%m.%Y"), for the four-digit years the model uses
Strftime(dt) ==
    Pad2(dt.d) \o <<".">> \o Pad2(dt.m) \o <<".">>
        \o Pad2(dt.y \div 100) \o Pad2(dt.y % 100)

(***************************************************************************)
(* AddressBook.get_birthdays_per_week.  The defaultdict returned is a      *)
(* sequence of [day, names], in the order the keys were first used.        *)
(***************************************************************************)
\* the loop body's date arithmetic for one birthday: the exception raised, or
\* birthday_this_year and delta_days as they stand at the window test
Occurrence(birthday, today) ==
    IF ReplaceYearRaises(birthday, today.y)
    THEN [raised |-> "ValueError", date |-> birthday, delta |-> 0]
    ELSE LET thisYear == ReplaceYear(birthday, today.y)
             delta == DaysBetween(thisYear, today)
         IN  IF delta >= 0
             THEN [raised |-> "", date |-> thisYear, delta |-> delta]
             ELSE IF ReplaceYearRaises(thisYear, today.y + 1)
                  THEN [raised |-> "ValueError", date |-> thisYear, delta |-> delta]
                  ELSE [raised |-> "",
                        date |-> ReplaceYear(thisYear, today.y + 1),
                        delta |-> DaysBetween(ReplaceYear(thisYear, today.y + 1), today)]

\* 0 <= delta_days < 7
WindowDays == 7

InWindow(delta) == 0 <= delta /\ delta < WindowDays

\* day_of_week, with Saturday and Sunday relabelled
DayLabel(dt) ==
    IF DayName[Weekday(dt) + 1] \in {"Saturday", "Sunday"}
    THEN "Monday"
    ELSE DayName[Weekday(dt) + 1]

\* birthdays[day].append(name)
MapAppend(map, day, name) ==
    IF \E i \in 1..Len(map) : map[i].day = day
    THEN [i \in 1..Len(map) |->
            IF map[i].day = day
            THEN [map[i] EXCEPT !.names = Append(@, name)]
            ELSE map[i]]
    ELSE Append(map, [day |-> day, names |-> <<name>>])

\* the for loop, from the i-th record on
RECURSIVE BirthdaysFrom(_, _, _, _)
BirthdaysFrom(b, today, i, map) ==
    IF i > Len(b.recs) THEN [raised |-> "", map |-> map]
    ELSE LET rec == b.recs[i]
         IN  IF rec.birthday = NoBirthday
             THEN BirthdaysFrom(b, today, i + 1, map)
             ELSE LET occ == Occurrence(rec.birthday, today)
                  IN  IF occ.raised # ""
                      THEN [raised |-> occ.raised, map |-> <<>>]
                      ELSE IF InWindow(occ.delta)
                           THEN BirthdaysFrom(b, today, i + 1,
                                    MapAppend(map, DayLabel(occ.date), rec.name))
                           ELSE BirthdaysFrom(b, today, i + 1, map)

GetBirthdaysPerWeek(b, today) == BirthdaysFrom(b, today, 1, <<>>)

(***************************************************************************)
(* The command handlers.  Each yields [book, exc, ret]: the book as the    *)
(* handler leaves it, the exception it raises ("" when none) and the       *)
(* string it returns.  input_error turns an exception into a string.       *)
(***************************************************************************)
\* the decorator input_error
InputError(r) ==
    IF r.exc = "" THEN [book |-> r.book, ret |-> r.ret]
    ELSE IF r.exc \in {"IndexError", "ValueError", "KeyError"}
         THEN [book |-> r.book, ret |-> "Error: " \o r.ret]
         ELSE [book |-> r.book, ret |-> "Unexpected error: " \o r.ret]

\* add_contact as it would be if it stored the name as typed
AddContactKeepCase(args, b) ==
    InputError(
        IF Len(args) # 2
        THEN [book |-> b, exc |-> "ValueError",
              ret |-> "Invalid input. Please provide both name and phone number."]
        ELSE LET r == AddPhone(NewRecord(args[1], NoBirthday), args[2])
             IN  IF r.raised # ""
                 THEN [book |-> b, exc |-> r.raised,
                       ret |-> "Phone number must be 10 digits."]
                 ELSE [book |-> AddRecord(b, r.rec), exc |-> "",
                       ret |-> "Contact added."])

\* add_contact
AddContact(args, b) ==
    InputError(
        IF Len(args) # 2
        THEN [book |-> b, exc |-> "ValueError",
              ret |-> "Invalid input. Please provide both name and phone number."]
        ELSE LET r == AddPhone(NewRecord(Lower(args[1]), NoBirthday), args[2])
             IN  IF r.raised # ""
                 THEN [book |-> b, exc |-> r.raised,
                       ret |-> "Phone number must be 10 digits."]
                 ELSE [book |-> AddRecord(b, r.rec), exc |-> "",
                       ret |-> "Contact added."])

\* change_phone
ChangePhone(args, b) ==
    InputError(
        IF Len(args) # 2
        THEN [book |-> b, exc |-> "ValueError",
              ret |-> "Invalid input. Please provide both name and phone number."]
        ELSE IF ~Has(b, Lower(args[1]))
        THEN [book |-> b, exc |-> "", ret |-> "Contact not found."]
        ELSE LET rec == Find(b, Lower(args[1]))
                 old == IF Len(rec.phones) > 0 THEN rec.phones[1] ELSE NoneVal
                 r == EditPhone(rec, old, args[2])
             IN  IF r.raised # ""
                 THEN [book |-> BookPut(b, Lower(args[1]), r.rec), exc |-> r.raised,
                       ret |-> "Phone number must be 10 digits."]
                 ELSE [book |-> BookPut(b, Lower(args[1]), r.rec), exc |-> "",
                       ret |-> "Contact for <name> updated."])

\* get_phone
GetPhone(args, b) ==
    InputError(
        IF Len(args) < 1
        THEN [book |-> b, exc |-> "ValueError", ret |-> "Please provide a contact name."]
        ELSE IF Has(b, Lower(args[1])) /\ Len(Find(b, Lower(args[1])).phones) > 0
        THEN [book |-> b, exc |-> "", ret |-> "<phone>"]
        ELSE [book |-> b, exc |-> "", ret |-> "Contact not found."])

\* show_all_contacts
ShowAllContacts(b) ==
    InputError(
        IF Len(b.order) > 0
        THEN [book |-> b, exc |-> "", ret |-> "<contacts>"]
        ELSE [book |-> b, exc |-> "", ret |-> "No contacts saved."])

\* add_birthday
AddBirthdayCmd(args, b) ==
    InputError(
        IF Len(args) # 2
        THEN [book |-> b, exc |-> "ValueError",
              ret |-> "Please provide both the contact name and birthday in the format 'DD.MM.YYYY'."]
        ELSE IF ~Has(b, Lower(args[1]))
        THEN [book |-> b, exc |-> "", ret |-> "Contact not found."]
        ELSE IF StrptimeRaises(args[2])
        THEN [book |-> b, exc |-> "", ret |-> "Invalid date format. Use DD.MM.YYYY."]
        ELSE LET r == AddBirthday(Find(b, Lower(args[1])),
                                  [kind |-> "datetime", date |-> Strptime(args[2])])
             IN  [book |-> BookPut(b, Lower(args[1]), r.rec), exc |-> r.raised,
                  ret |-> IF r.raised = "" THEN "Birthday added."
                          ELSE "Invalid date format. Use DD.MM.YYYY."])

\* show_birthday
ShowBirthday(args, b) ==
    InputError(
        IF Len(args) < 1
        THEN [book |-> b, exc |-> "ValueError", ret |-> "Please provide a contact name."]
        ELSE IF Has(b, Lower(args[1]))
                /\ Find(b, Lower(args[1])).birthday # NoBirthday
        THEN [book |-> b, exc |-> "", ret |-> "<birthday>"]
        ELSE [book |-> b, exc |-> "", ret |-> "Birthday not found for this contact."])

(***************************************************************************)
(* Input values.                                                           *)
(***************************************************************************)
PhoneA == <<"1", "2", "3", "4", "5", "6", "7", "8", "9", "0">>
PhoneB == <<"0", "9", "8", "7", "6", "5", "4", "3", "2", "1">>
PhoneShort == <<"1", "2", "3", "4", "5", "6", "7", "8", "9">>
PhoneSep == <<"1", "2", "3", "-", "4", "5", "6", "-", "7", "8">>
PhoneNewline == PhoneA \o <<"\n">>

\* raw strings of every length up to MaxStrLen: digits, with at most one
\* character that is not a digit, at any place
NonDigits == {"-", " ", "a", "\n"}

RawStrings ==
    {[i \in 1..t[1] |-> IF i = t[2] THEN t[3] ELSE DigitChar(i % 10)] :
        t \in {u \in (0..MaxStrLen) \X (0..MaxStrLen) \X NonDigits :
                  /\ u[2] <= u[1]
                  /\ (u[2] = 0 => u[3] = "-")}}

NameJohn == <<"j", "o", "h", "n">>
NameJohnCap == <<"J", "o", "h", "n">>
NameAnn == <<"A", "N", "N">>

Date(y, m, d) == [y |-> y, m |-> m, d |-> d]

Call(op, args, raised, ret) ==
    [op |-> op, args |-> args, pre |-> book, raised |-> raised, ret |-> ret]

(***************************************************************************)
(* SpecRecord: one Record, held by a book as in task1.py (lines 99-102),   *)
(* and the calls a client makes on it.                                     *)
(***************************************************************************)
RecordBirthdays == {NoBirthday, Date(1990, 12, 19)}

InitRecord ==
    /\ \E name \in {NameJohn, NameJohnCap}, bd \in RecordBirthdays :
          book = AddRecord(EmptyBook, NewRecord(name, bd))
    /\ last = [op |-> "init", args |-> <<>>, pre |-> EmptyBook, raised |-> "", ret |-> <<>>]
    /\ pc = "lib"
    /\ hist = <<>>

TheKey == book.order[1]
TheRec == book.recs[1]

EditOld == {PhoneA, PhoneB, PhoneNewline, PhoneShort, NoneVal}
EditNew == {PhoneA, PhoneB, PhoneNewline, PhoneShort, PhoneSep}

RecAddPhone ==
    /\ Len(TheRec.phones) < MaxPhones
    /\ \E raw \in EditNew :
          LET r == AddPhone(TheRec, raw)
          IN  /\ book' = BookPut(book, TheKey, r.rec)
              /\ last' = Call("add_phone", <<raw>>, r.raised, <<>>)
    /\ UNCHANGED <<pc, hist>>

RecRemovePhone ==
    /\ \E v \in EditOld :
          /\ book' = BookPut(book, TheKey, RemovePhone(TheRec, v))
          /\ last' = Call("remove_phone", <<v>>, "", <<>>)
    /\ UNCHANGED <<pc, hist>>

RecEditPhone ==
    /\ \E old \in EditOld, new \in EditNew :
          LET r == EditPhone(TheRec, old, new)
          IN  /\ Len(r.rec.phones) <= MaxPhones
              /\ book' = BookPut(book, TheKey, r.rec)
              /\ last' = Call("edit_phone", <<old, new>>, r.raised, <<>>)
    /\ UNCHANGED <<pc, hist>>

RecFindPhone ==
    /\ \E v \in EditOld :
          /\ book' = book
          /\ last' = Call("find_phone", <<v>>, "", FindPhone(TheRec, v))
    /\ UNCHANGED <<pc, hist>>

BirthdayInputs ==
    {[kind |-> "datetime", date |-> Date(2000, 2, 29)],
     [kind |-> "datetime", date |-> Date(1990, 12, 19)],
     [kind |-> "str", date |-> NoBirthday]}

RecAddBirthday ==
    /\ \E b \in BirthdayInputs :
          LET r == AddBirthday(TheRec, b)
          IN  /\ book' = BookPut(book, TheKey, r.rec)
              /\ last' = Call("add_birthday", <<b>>, r.raised, <<>>)
    /\ UNCHANGED <<pc, hist>>

\* change_phone(args, book), as main calls it for the command "change"
RecChangePhone ==
    /\ \E name \in {NameJohn, NameJohnCap, NameAnn}, new \in EditNew :
          LET r == ChangePhone(<<name, new>>, book)
          IN  /\ book' = r.book
              /\ last' = Call("change", <<name, new>>, "", r.ret)
    /\ UNCHANGED <<pc, hist>>

NextRecord ==
    \/ RecAddPhone
    \/ RecRemovePhone
    \/ RecEditPhone
    \/ RecFindPhone
    \/ RecAddBirthday
    \/ RecChangePhone

SpecRecord == InitRecord /\ [][NextRecord]_vars

(***************************************************************************)
(* SpecPhone: one call of add_phone, with any raw string, on the Record of *)
(* task1.py, before and after its add_phone("1234567890").                 *)
(***************************************************************************)
InitPhone ==
    /\ \E phones \in {<<>>, <<PhoneA>>} :
          book = AddRecord(EmptyBook,
                    [NewRecord(NameJohnCap, Date(1990, 12, 19)) EXCEPT !.phones = phones])
    /\ last = [op |-> "init", args |-> <<>>, pre |-> EmptyBook, raised |-> "", ret |-> <<>>]
    /\ pc = "lib"
    /\ hist = <<>>

PhoneAddPhone ==
    /\ last.op = "init"
    /\ \E raw \in RawStrings :
          LET r == AddPhone(TheRec, raw)
          IN  /\ book' = BookPut(book, TheKey, r.rec)
              /\ last' = Call("add_phone", <<raw>>, r.raised, <<>>)
    /\ UNCHANGED <<pc, hist>>

NextPhone == PhoneAddPhone

SpecPhone == InitPhone /\ [][NextPhone]_vars

(***************************************************************************)
(* Properties of Phone and Record.                                         *)
(***************************************************************************)
IsTenDigits(s) == Len(s) = PhoneDigits /\ AllDigits(s)

Count(s, v) == Cardinality({i \in 1..Len(s) : s[i] = v})

\* `after` is `before` without its first element equal to v (itself when
\* v is not in it)
FirstRemoved(before, v, after) ==
    IF \A i \in 1..Len(before) : before[i] # v
    THEN after = before
    ELSE \E i \in 1..Len(before) :
            /\ before[i] = v
            /\ \A j \in 1..(i - 1) : before[j] # v
            /\ after = SubSeq(before, 1, i - 1) \o SubSeq(before, i + 1, Len(before))

PreRec == last.pre.recs[1]

\* C8: add_phone(raw) succeeds exactly when raw is made of exactly 10 decimal
\* digits; when it succeeds raw is appended, and when it fails (ValueError) the
\* Record is as it was.
C8_PhoneExactlyTenDigits ==
    last.op = "add_phone" =>
        /\ (last.raised = "") <=> IsTenDigits(last.args[1])
        /\ last.raised = "" => TheRec.phones = Append(PreRec.phones, last.args[1])
        /\ last.raised # "" => last.raised = "ValueError" /\ book = last.pre

\* What the code does instead (C8): it also takes ten digits followed by one
\* newline, and stores the string with its newline; everything else is as C8 says.
PhoneAcceptsTrailingNewline ==
    last.op = "add_phone" =>
        /\ (last.raised = "") <=>
              \/ IsTenDigits(last.args[1])
              \/ /\ Len(last.args[1]) = PhoneDigits + 1
                 /\ IsTenDigits(SubSeq(last.args[1], 1, PhoneDigits))
                 /\ last.args[1][PhoneDigits + 1] = "\n"
        /\ last.raised = "" => TheRec.phones = Append(PreRec.phones, last.args[1])
        /\ last.raised # "" => last.raised = "ValueError" /\ book = last.pre

\* C5, as claimed: after edit_phone(old, new) with new of 10 digits,
\* find_phone(new) returns a phone of value new and find_phone(old) returns None.
C5_EditThenFind_Original ==
    (last.op = "edit_phone" /\ IsTenDigits(last.args[2])) =>
        /\ FindPhone(TheRec, last.args[2]) = last.args[2]
        /\ FindPhone(TheRec, last.args[1]) = NoneVal

\* C5, amended: after edit_phone(old, new) with new of 10 digits,
\* find_phone(new) returns a phone of value new, and find_phone(old) returns
\* None exactly when old differs from new and the Record held old at most once
\* before the call (only the first occurrence is removed).
C5_EditThenFind ==
    (last.op = "edit_phone" /\ IsTenDigits(last.args[2])) =>
        /\ last.raised = ""
        /\ FindPhone(TheRec, last.args[2]) = last.args[2]
        /\ (FindPhone(TheRec, last.args[1]) = NoneVal) <=>
              /\ last.args[1] # last.args[2]
              /\ Count(PreRec.phones, last.args[1]) <= 1

\* C5's case: old, held once among several phones, was replaced by another value
C5_Witness ==
    /\ last.op = "edit_phone"
    /\ IsTenDigits(last.args[2])
    /\ last.args[1] # last.args[2]
    /\ Len(PreRec.phones) >= 2
    /\ Count(PreRec.phones, last.args[1]) = 1
    /\ FindPhone(TheRec, last.args[1]) = NoneVal

\* C9: edit_phone(old, new) with a new value that Phone rejects raises
\* ValueError after the removal: the phones are the former ones without the first
\* occurrence of old, new is not among them unless it was before, and the key,
\* the name and the birthday are as they were.  The command "change" with such
\* a phone, on a contact with one phone, leaves the contact in the book with no
\* phone, and answers with the error.
C9_EditInvalidLosesOld ==
    /\ (last.op = "edit_phone" /\ PhoneRaises(last.args[2]) # "") =>
          /\ last.raised = "ValueError"
          /\ FirstRemoved(PreRec.phones, last.args[1], TheRec.phones)
          /\ Count(TheRec.phones, last.args[2]) = 0
          /\ book.order = last.pre.order
          /\ TheRec.name = PreRec.name
          /\ TheRec.birthday = PreRec.birthday
    /\ (/\ last.op = "change"
        /\ PhoneRaises(last.args[2]) # ""
        /\ Has(last.pre, Lower(last.args[1]))
        /\ Len(PreRec.phones) = 1) =>
          /\ book.order = last.pre.order
          /\ TheRec = [PreRec EXCEPT !.phones = <<>>]
          /\ last.ret = "Error: Phone number must be 10 digits."

\* C9's case: a failed edit_phone took one of two equal phones away
C9_Witness ==
    /\ last.op = "edit_phone"
    /\ last.raised = "ValueError"
    /\ Count(PreRec.phones, last.args[1]) = 2
    /\ Count(TheRec.phones, last.args[1]) = 1
    /\ Len(TheRec.phones) = Len(PreRec.phones) - 1

\* C9 through the command: the contact's only phone is gone
C9_WitnessChange ==
    /\ last.op = "change"
    /\ PhoneRaises(last.args[2]) # ""
    /\ Len(PreRec.phones) = 1
    /\ Len(TheRec.phones) = 0

(***************************************************************************)
(* SpecBook: an AddressBook and the add_record, find and delete calls of   *)
(* a client.  hist keeps the add_record and delete calls made.             *)
(***************************************************************************)
BookNames == {NameJohn, NameJohnCap}

\* Records a client builds before add_record: Record(name[, birthday]) and
\* add_phone calls
BookRecords ==
    {[NewRecord(name, c[2]) EXCEPT !.phones = c[1]] :
        name \in BookNames,
        c \in {<<<<PhoneA>>, NoBirthday>>,
               <<<<PhoneB, PhoneA>>, Date(1990, 12, 19)>>,
               <<<<>>, Date(2000, 2, 29)>>}}

InitBook ==
    /\ book = EmptyBook
    /\ last = [op |-> "init", args |-> <<>>, pre |-> EmptyBook, raised |-> "", ret |-> <<>>]
    /\ pc = "lib"
    /\ hist = <<>>

BookAddRecord ==
    /\ Len(hist) < MaxOps
    /\ \E rec \in BookRecords :
          /\ book' = AddRecord(book, rec)
          /\ last' = Call("add_record", <<rec>>, "", <<>>)
          /\ hist' = Append(hist, [op |-> "add_record", name |-> rec.name, rec |-> rec])
    /\ UNCHANGED pc

BookDelete ==
    /\ Len(hist) < MaxOps
    /\ \E name \in BookNames :
          /\ book' = Delete(book, name)
          /\ last' = Call("delete", <<name>>, "", <<>>)
          /\ hist' = Append(hist, [op |-> "delete", name |-> name,
                                   rec |-> NewRecord(name, NoBirthday)])
    /\ UNCHANGED pc

\* add_contact(args, book): its add_record call, when it gets that far, is the
\* one hist records
BookAddContact ==
    /\ Len(hist) < MaxOps
    /\ \E name \in BookNames, phone \in {PhoneB, PhoneShort} :
          LET r == AddContact(<<name, phone>>, book)
              rec == [name |-> Lower(name), phones |-> <<phone>>, birthday |-> NoBirthday]
          IN  /\ book' = r.book
              /\ last' = Call("add", <<name, phone>>, "", r.ret)
              /\ hist' = IF r.ret = "Contact added."
                         THEN Append(hist, [op |-> "add_record", name |-> rec.name,
                                            rec |-> rec])
                         ELSE hist
    /\ UNCHANGED pc

BookFind ==
    /\ \E name \in BookNames :
          /\ book' = book
          /\ last' = Call("find", <<name>>, "",
                          IF Has(book, name) THEN <<Find(book, name)>> ELSE NoneVal)
    /\ UNCHANGED <<pc, hist>>

NextBook ==
    \/ BookAddRecord
    \/ BookDelete
    \/ BookAddContact
    \/ BookFind

SpecBook == InitBook /\ [][NextBook]_vars

\* the last call of hist about `name`: its index, 0 when there is none
LastCallOn(name) ==
    IF \E i \in 1..Len(hist) : hist[i].name = name
    THEN CHOOSE i \in 1..Len(hist) :
            /\ hist[i].name = name
            /\ \A j \in (i + 1)..Len(hist) : hist[j].name # name
    ELSE 0

\* C6: the book holds at most one Record per name, and find(name) returns the
\* Record of the last add_record under that name if no delete(name) followed
\* it, and None otherwise: a Record added again replaces the former one whole.
C6_LastWriteWins ==
    /\ Cardinality(Keys(book)) = Len(book.order)
    /\ Len(book.recs) = Len(book.order)
    /\ \A name \in BookNames :
          LET i == LastCallOn(name)
          IN  IF i # 0 /\ hist[i].op = "add_record"
              THEN Has(book, name) /\ Find(book, name) = hist[i].rec
              ELSE ~Has(book, name)
    /\ last.op = "find" =>
          LET i == LastCallOn(last.args[1])
          IN  IF i # 0 /\ hist[i].op = "add_record"
              THEN last.ret = <<hist[i].rec>>
              ELSE last.ret = NoneVal

\* C6's case: add_record under a name that held another Record
C6_Witness ==
    /\ last.op = "add_record"
    /\ Has(last.pre, last.args[1].name)
    /\ Find(last.pre, last.args[1].name) # last.args[1]
    /\ Len(Find(last.pre, last.args[1].name).phones) = 2
    /\ Find(book, last.args[1].name) = last.args[1]

\* C7: delete(name) for a name that is no key leaves the book as it was (keys,
\* Records, order); for a key it removes that entry and nothing else, the other
\* entries keeping their Records and their order.
C7_DeleteFrame ==
    last.op = "delete" =>
        IF \A i \in 1..Len(last.pre.order) : last.pre.order[i] # last.args[1]
        THEN book = last.pre
        ELSE \E i \in 1..Len(last.pre.order) :
                /\ last.pre.order[i] = last.args[1]
                /\ book.order = SubSeq(last.pre.order, 1, i - 1)
                                   \o SubSeq(last.pre.order, i + 1, Len(last.pre.order))
                /\ book.recs = SubSeq(last.pre.recs, 1, i - 1)
                                   \o SubSeq(last.pre.recs, i + 1, Len(last.pre.recs))

\* C7's case: delete of a name that is no key of a book that holds a contact
C7_Witness ==
    /\ last.op = "delete"
    /\ ~Has(last.pre, last.args[1])
    /\ Len(last.pre.order) > 0
    /\ book = last.pre

\* C7's other case: delete of the first of two entries
C7_WitnessPresent ==
    /\ last.op = "delete"
    /\ Len(last.pre.order) = 2
    /\ last.pre.order[1] = last.args[1]
    /\ Len(book.order) = 1

(***************************************************************************)
(* SpecBirthdays: a book of contacts with birthdays, and calls of          *)
(* get_birthdays_per_week; `today` is what datetime.now().date() gives at  *)
(* the call.                                                               *)
(***************************************************************************)
\* the years of the reference dates: 2023 is no leap year, 2024 is one
Years == {2023, 2024}

Todays ==
    {Date(y, md[1], md[2]) :
        y \in Years,
        md \in {<<2, 23>>, <<2, 25>>, <<2, 28>>, <<3, 1>>, <<3, 5>>,
                <<6, 10>>, <<6, 12>>, <<12, 26>>, <<12, 31>>}}
    \cup {Date(y, 2, 29) : y \in {z \in Years : IsLeap(z)}}

Birthdays ==
    {Date(1990, md[1], md[2]) :
        md \in {<<2, 28>>, <<3, 1>>, <<3, 7>>, <<6, 9>>, <<6, 10>>, <<6, 15>>,
                <<6, 16>>, <<6, 17>>, <<12, 31>>, <<1, 1>>, <<1, 2>>}}
    \cup {Date(2000, 2, 29)}

BdayNames == <<NameJohn, NameAnn, NameJohnCap>>

InitBirthdays ==
    /\ book = EmptyBook
    /\ last = [op |-> "init", args |-> <<>>, pre |-> EmptyBook, raised |-> "", ret |-> <<>>]
    /\ pc = "lib"
    /\ hist = <<>>

\* Record(name[, birthday]) and add_record, for the next name
BdayAddRecord ==
    /\ Len(book.order) < MaxContacts
    /\ Len(book.order) < Len(BdayNames)
    /\ \E bd \in Birthdays \cup {NoBirthday} :
          LET rec == NewRecord(BdayNames[Len(book.order) + 1], bd)
          IN  /\ book' = AddRecord(book, rec)
              /\ last' = Call("add_record", <<rec>>, "", <<>>)
    /\ UNCHANGED <<pc, hist>>

BdayQuery ==
    /\ \E today \in Todays :
          LET r == GetBirthdaysPerWeek(book, today)
          IN  /\ book' = book
              /\ last' = Call("get_birthdays_per_week", <<today>>, r.raised, r.map)
    /\ UNCHANGED <<pc, hist>>

NextBirthdays ==
    \/ BdayAddRecord
    \/ BdayQuery

SpecBirthdays == InitBirthdays /\ [][NextBirthdays]_vars

(***************************************************************************)
(* What the spec asks of get_birthdays_per_week, stated on the calendar    *)
(* day by day, without the year substitution the code uses.                *)
(***************************************************************************)
NextDay(dt) ==
    IF dt.d < DaysInMonth(dt.y, dt.m) THEN [dt EXCEPT !.d = dt.d + 1]
    ELSE IF dt.m < 12 THEN [dt EXCEPT !.m = dt.m + 1, !.d = 1]
    ELSE Date(dt.y + 1, 1, 1)

RECURSIVE PlusDays(_, _)
PlusDays(dt, k) == IF k = 0 THEN dt ELSE NextDay(PlusDays(dt, k - 1))

\* the days k of the window on which the birthday's month and day fall
WindowHits(bd, today) ==
    {k \in 0..(WindowDays - 1) :
        PlusDays(today, k).m = bd.m /\ PlusDays(today, k).d = bd.d}

Upcoming(rec, today) ==
    rec.birthday # NoBirthday /\ WindowHits(rec.birthday, today) # {}

\* the label asked for an upcoming contact
WantedLabel(rec, today) ==
    LET k == CHOOSE k \in WindowHits(rec.birthday, today) : TRUE
        day == DayName[((Weekday(today) + k) % 7) + 1]
    IN  IF day \in {"Saturday", "Sunday"} THEN "Monday" ELSE day

Returned == last.op = "get_birthdays_per_week" /\ last.raised = ""

\* how many times `name` stands in the mapping returned (0 when the call
\* returned none)
Listed(name) ==
    IF ~Returned THEN 0
    ELSE Cardinality({p \in {q \in (1..Len(last.ret)) \X (1..MaxContacts) :
                                q[2] <= Len(last.ret[q[1]].names)} :
                        last.ret[p[1]].names[p[2]] = name})

\* `name` stands under the key `day` of the mapping returned
ListedUnder(name, day) ==
    /\ Returned
    /\ \E i \in 1..Len(last.ret) :
          /\ last.ret[i].day = day
          /\ \E j \in 1..Len(last.ret[i].names) : last.ret[i].names[j] = name

Contacts == 1..Len(book.recs)

HasLeapDayBirthday ==
    \E i \in Contacts : book.recs[i].birthday.m = 2 /\ book.recs[i].birthday.d = 29

\* C2: a contact is in the result exactly when it has a birthday whose next
\* occurrence is within 7 days of the reference date, and then once; the result
\* is an empty mapping when no contact qualifies.
C2_WindowMembership ==
    last.op = "get_birthdays_per_week" =>
        /\ \A i \in Contacts :
              Listed(book.recs[i].name) =
                  IF Upcoming(book.recs[i], last.args[1]) THEN 1 ELSE 0
        /\ (\A i \in Contacts : ~Upcoming(book.recs[i], last.args[1])) =>
              Returned /\ last.ret = <<>>

\* C3: the mapping returned has no key Saturday or Sunday, and every upcoming
\* contact stands under the weekday of its birthday's date, Monday for a
\* Saturday or a Sunday.
C3_WeekendToMonday ==
    last.op = "get_birthdays_per_week" =>
        /\ Returned =>
              \A i \in 1..Len(last.ret) : last.ret[i].day \notin {"Saturday", "Sunday"}
        /\ \A i \in Contacts :
              Upcoming(book.recs[i], last.args[1]) =>
                  ListedUnder(book.recs[i].name, WantedLabel(book.recs[i], last.args[1]))

\* C4: get_birthdays_per_week returns a mapping, whatever the reference date,
\* also when a contact's birthday is February 29.
C4_LeapDayDoesNotRaise ==
    last.op = "get_birthdays_per_week" => last.raised = ""

\* What the code does (C2, C3, C4): the call raises ValueError exactly when
\* some contact's birthday is February 29 and the reference date is in a year
\* that is no leap year, or after February 29 of a leap year.
RaisesExactlyOnLeapDay ==
    last.op = "get_birthdays_per_week" =>
        /\ last.raised \in {"", "ValueError"}
        /\ (last.raised = "ValueError") <=>
              /\ HasLeapDayBirthday
              /\ \/ ~IsLeap(last.args[1].y)
                 \/ DaysBetween(last.args[1], Date(last.args[1].y, 2, 29)) > 0

\* What the code does (C2, C3): whenever the call returns, the mapping is the
\* one C2 and C3 describe, also with the contacts in the order of the book.
CorrectWhenReturned ==
    Returned =>
        /\ \A i \in Contacts :
              Listed(book.recs[i].name) =
                  IF Upcoming(book.recs[i], last.args[1]) THEN 1 ELSE 0
        /\ \A i \in 1..Len(last.ret) : last.ret[i].day \notin {"Saturday", "Sunday"}
        /\ \A i \in Contacts :
              Upcoming(book.recs[i], last.args[1]) =>
                  ListedUnder(book.recs[i].name, WantedLabel(book.recs[i], last.args[1]))
        /\ (\A i \in Contacts : ~Upcoming(book.recs[i], last.args[1])) => last.ret = <<>>

(***************************************************************************)
(* SpecShell: main's read loop.  A line is given by its words, as          *)
(* parse_input splits it: the command word, lower-cased, and the           *)
(* arguments.  last keeps the command and what was printed for it.         *)
(***************************************************************************)
DateLeap == <<"2", "9", ".", "0", "2", ".", "2", "0", "0", "0">>
DateJune == <<"1", "5", ".", "0", "6", ".", "1", "9", "9", "0">>

\* the words typed as arguments: a first word, taken as the name, and any
\* word after it; each is a wrong value for the other roles
FirstWords == {NameJohn, NameJohnCap, NameAnn}

Words == FirstWords \cup {PhoneA, PhoneB, DateLeap, DateJune}

\* the argument lists: none, one or two words, and longer lists up to MaxArgs
ArgLists ==
    {<<>>}
    \cup {<<w>> : w \in FirstWords}
    \cup (FirstWords \X Words)
    \cup {[i \in 1..n |-> IF i <= 2 THEN p[i] ELSE NameAnn] :
            n \in 3..MaxArgs, p \in FirstWords \X Words}

InitShell ==
    /\ book = EmptyBook
    /\ last = [op |-> "init", ret |-> "Welcome to the assistant bot!"]
    /\ pc = "reading"
    /\ hist = <<>>

\* a handler's branch of main: print(handler(args, book))
Handled(op, r) ==
    /\ book' = r.book
    /\ last' = [op |-> op, ret |-> r.ret]
    /\ UNCHANGED <<pc, hist>>

\* if command is None: continue
ShEmptyLine ==
    /\ pc = "reading"
    /\ last' = [op |-> "", ret |-> ""]
    /\ UNCHANGED <<book, pc, hist>>

ShExit ==
    /\ pc = "reading"
    /\ pc' = "exited"
    /\ last' = [op |-> "exit", ret |-> "Good bye!"]
    /\ UNCHANGED <<book, hist>>

ShHello ==
    /\ pc = "reading"
    /\ last' = [op |-> "hello", ret |-> "How can I help you?"]
    /\ UNCHANGED <<book, pc, hist>>

ShAdd ==
    /\ pc = "reading"
    /\ \E args \in ArgLists : Handled("add", AddContact(args, book))

ShChange ==
    /\ pc = "reading"
    /\ \E args \in ArgLists : Handled("change", ChangePhone(args, book))

ShPhone ==
    /\ pc = "reading"
    /\ \E args \in ArgLists : Handled("phone", GetPhone(args, book))

ShAll ==
    /\ pc = "reading"
    /\ Handled("all", ShowAllContacts(book))

ShAddBirthday ==
    /\ pc = "reading"
    /\ \E args \in ArgLists : Handled("add-birthday", AddBirthdayCmd(args, book))

ShShowBirthday ==
    /\ pc = "reading"
    /\ \E args \in ArgLists : Handled("show-birthday", ShowBirthday(args, book))

\* the branch "birthdays": get_birthdays_per_week is called by main itself,
\* under no input_error; an exception it raises ends main
ShBirthdays ==
    /\ pc = "reading"
    /\ \E today \in Todays :
          LET r == GetBirthdaysPerWeek(book, today)
          IN  IF r.raised # ""
              THEN /\ pc' = "crashed"
                   /\ last' = [op |-> "birthdays", ret |-> ""]
              ELSE /\ pc' = pc
                   /\ last' = [op |-> "birthdays",
                               ret |-> IF Len(r.map) > 0 THEN "<day: names>"
                                       ELSE "No birthdays next week."]
    /\ UNCHANGED <<book, hist>>

ShInvalid ==
    /\ pc = "reading"
    /\ last' = [op |-> "?", ret |-> "Invalid command."]
    /\ UNCHANGED <<book, pc, hist>>

NextShell ==
    \/ ShEmptyLine
    \/ ShExit
    \/ ShHello
    \/ ShAdd
    \/ ShChange
    \/ ShPhone
    \/ ShAll
    \/ ShAddBirthday
    \/ ShShowBirthday
    \/ ShBirthdays
    \/ ShInvalid

SpecShell == InitShell /\ [][NextShell]_vars

\* C1: no exception escapes the read loop: main is reading or has exited on
\* close/exit, and every command has printed a string.
C1_NoExceptionEscapes ==
    /\ pc \in {"reading", "exited"}
    /\ last.op # "" => last.ret # ""

\* What the code does (C1): every branch but "birthdays" keeps main reading.
OnlyBirthdaysEscapes ==
    /\ pc = "crashed" => last.op = "birthdays"
    /\ (pc # "crashed" /\ last.op # "") => last.ret # ""

\* C10: every contact of the shell's book is stored under the lower-case form
\* of its name, which is the name its Record holds, and holds at most one
\* phone, of 10 digits; no name is stored twice.
C10_ShellBookInvariant ==
    /\ Cardinality(Keys(book)) = Len(book.order)
    /\ Len(book.recs) = Len(book.order)
    /\ \A i \in 1..Len(book.order) :
          /\ Lower(book.order[i]) = book.order[i]
          /\ book.recs[i].name = book.order[i]
          /\ Len(book.recs[i].phones) <= 1
          /\ \A j \in 1..Len(book.recs[i].phones) : IsTenDigits(book.recs[i].phones[j])

\* C10's case: a name typed in capitals was added, and its phone changed
C10_Witness ==
    /\ last.op = "change"
    /\ last.ret = "Contact for <name> updated."
    /\ Has(book, Lower(NameAnn))
    /\ ~Has(book, NameAnn)
    /\ Find(book, Lower(NameAnn)).phones = <<PhoneB>>
    /\ Len(book.order) = 2

====
